---- MODULE Spec2Model ----
(***************************************************************************)
(* A model of package dlog (src/dlog.go): a Logger that embeds a pointer   *)
(* to a log.Logger (the line-writer), a debug flag and a mutex.            *)
(*                                                                         *)
(*   Spec      one caller: every exported operation as one atomic step on  *)
(*             the instance the caller holds (the default instance std,    *)
(*             or an instance it constructs first).                        *)
(*   CtxSpec   NewContext / FromContext over a heap of context nodes.      *)
(*   ConcSpec  goroutines running SetDebug and Debug on one shared         *)
(*             instance, one shared-memory access per step.                *)
(***************************************************************************)
EXTENDS Integers, Sequences, FiniteSets, TLC

VARIABLES env, l, logs, writes, last, called, ctxs, pc, reg, mu, debugWriter, start

vars == <<env, l, logs, writes, last, called, ctxs, pc, reg, mu, debugWriter, start>>

(***************************************************************************)
(* Bounds                                                                  *)
(***************************************************************************)
\* context nodes derived from context.Background()
MaxCtx == 3
\* goroutines sharing one instance
NThreads == 2

(***************************************************************************)
(* Flag bits of package log, as dlog.go uses them                          *)
(***************************************************************************)
LstdFlags == 3
Lshortfile == 16
Lmsgprefix == 64

RECURSIVE BitAnd(_, _)
BitAnd(a, b) ==
    IF a = 0 \/ b = 0 THEN 0
    ELSE (a % 2) * (b % 2) + 2 * BitAnd(a \div 2, b \div 2)

\* a | b
BitOr(a, b) == a + b - BitAnd(a, b)

\* a &^ b
BitAndNot(a, b) == a - BitAnd(a, b)

\* 1 << n
Shl1(n) == 2 ^ n

HasBit(f, bit) == BitAnd(f, bit) # 0

(***************************************************************************)
(* Values                                                                  *)
(***************************************************************************)
Nil == 0
Addrs == 1 .. (NThreads + 1)
Free == [free |-> TRUE]
Writers == {"stderr", "buf"}
Prefixes == {"", "svc: "}
FlagInputs == {0, LstdFlags, LstdFlags + Lshortfile, LstdFlags + Lmsgprefix}
EnvValues == {"", "1", "false"}
ArgLists == {<<"x">>, <<"a", "b">>}
Formats == {<<"%s", "%s">>}
\* no flags recorded
NoFlags == <<>>

\* log.New(out, prefix, flag)
logNew(out, prefix, flag) == [out |-> out, prefix |-> prefix, flag |-> flag]

\* the first address of the heap that holds no line-writer
NewAddr(h) == CHOOSE a \in Addrs : h[a] = Free /\ \A b \in Addrs : b < a => h[b] # Free

defaultLogger == logNew("stderr", "", LstdFlags)

(***************************************************************************)
(* fmt.Sprint / Sprintln / Sprintf on string operands; a string is a       *)
(* sequence of tokens and concatenation is \o                              *)
(***************************************************************************)
Sprint(v) == v

RECURSIVE Sprintln(_)
Sprintln(v) ==
    IF v = <<>> THEN <<"\n">>
    ELSE IF Len(v) = 1 THEN <<v[1], "\n">>
    ELSE <<v[1], " ">> \o Sprintln(Tail(v))

RECURSIVE Sprintf(_, _)
Sprintf(format, a) ==
    IF format = <<>> THEN (IF a = <<>> THEN <<>> ELSE <<"%!(EXTRA)">>)
    ELSE IF Head(format) = "%s"
         THEN IF a = <<>> THEN <<"%!s(MISSING)">> \o Sprintf(Tail(format), a)
              ELSE <<Head(a)>> \o Sprintf(Tail(format), Tail(a))
         ELSE <<Head(format)>> \o Sprintf(Tail(format), a)

(***************************************************************************)
(* log.Logger.Output: header, message, closing newline, one Write         *)
(***************************************************************************)
prefixTokens(p) == IF p = "" THEN <<>> ELSE <<p>>

formatHeader(lw) ==
    (IF HasBit(lw.flag, Lmsgprefix) THEN <<>> ELSE prefixTokens(lw.prefix))
    \o (IF HasBit(lw.flag, 1) THEN <<"DATE">> ELSE <<>>)
    \o (IF HasBit(lw.flag, 2) THEN <<"TIME">> ELSE <<>>)
    \o (IF HasBit(lw.flag, Lshortfile) THEN <<"file:line">> ELSE <<>>)
    \o (IF HasBit(lw.flag, Lmsgprefix) THEN prefixTokens(lw.prefix) ELSE <<>>)

formatRecord(lw, s) ==
    formatHeader(lw) \o s
    \o (IF s = <<>> \/ s[Len(s)] # "\n" THEN <<"\n">> ELSE <<>>)

\* lw.Output(calldepth, s): one Write of the record on lw's destination;
\* st holds, per destination, the Writes made on it
logOutput(st, lw, s) == [st EXCEPT ![lw.out] = Append(@, formatRecord(lw, s))]

(***************************************************************************)
(* The methods of Logger as functions of m = [l, logs, streams]: the       *)
(* instance, the heap of line-writers and the Writes made on each          *)
(* destination.  Each returns m after the call with how the call ended:    *)
(*   "return"    it returned                                               *)
(*   "nilderef"  it used the unset line-writer (nil pointer dereference)   *)
(*   "panic"     it raised panic(val)                                      *)
(*   "exit"      it ended the process with os.Exit(val)                    *)
(***************************************************************************)
Returned(m) == [l |-> m.l, logs |-> m.logs, streams |-> m.streams,
                outcome |-> "return", val |-> <<>>]

NilDeref(m) == [Returned(m) EXCEPT !.outcome = "nilderef"]

\* if l.Logger == nil { l.Logger = defaultLogger() }
withDefault(m) ==
    IF m.l.Logger = Nil
    THEN LET a == NewAddr(m.logs)
         IN  [m EXCEPT !.l.Logger = a, !.logs[a] = defaultLogger]
    ELSE m

\* the message handed to package log's own logger, not to the instance's
stdlibOutput(m, s) ==
    IF m.l.Logger = Nil THEN NilDeref(m)
    ELSE Returned([m EXCEPT !.streams = logOutput(m.streams, defaultLogger, s)])

\* l.Output(2, s), the method of the embedded line-writer
loggerOutput(m, s) ==
    IF m.l.Logger = Nil THEN NilDeref(m)
    ELSE Returned([m EXCEPT !.streams = logOutput(m.streams, m.logs[m.l.Logger], s)])

\* Debug that does not test l.debug
debugWithoutCheck(m, s) ==
    LET m1 == withDefault(m) IN loggerOutput(m1, s)

\* the body that Debug, Debugln and Debugf share, s the formatted message
loggerDebug(m, s) ==
    LET m1 == withDefault(m)
    IN  IF m1.l.debug THEN loggerOutput(m1, s) ELSE Returned(m1)

\* l.Flags() &^ (1 << log.Lshortfile)
clearShortfile(f) == BitAndNot(f, Shl1(Lshortfile))

\* l.Flags() | log.Lshortfile
setShortfile(f) == BitOr(f, Lshortfile)

loggerSetDebug(m, b) ==
    LET m1 == withDefault(m)
        a  == m1.l.Logger
        f  == m1.logs[a].flag
    IN  Returned([m1 EXCEPT !.l.debug = b,
                            !.logs[a].flag = IF b THEN setShortfile(f)
                                             ELSE clearShortfile(f)])

loggerSetFlags(m, flag) ==
    IF m.l.Logger = Nil THEN NilDeref(m)
    ELSE Returned([m EXCEPT !.logs[m.l.Logger].flag = flag])

loggerSetPrefix(m, prefix) ==
    IF m.l.Logger = Nil THEN NilDeref(m)
    ELSE Returned([m EXCEPT !.logs[m.l.Logger].prefix = prefix])

loggerSetOutput(m, w) ==
    IF m.l.Logger = Nil THEN NilDeref(m)
    ELSE Returned([m EXCEPT !.logs[m.l.Logger].out = w])

\* Flags, Prefix, Writer: read the line-writer and change nothing
loggerRead(m) == IF m.l.Logger = Nil THEN NilDeref(m) ELSE Returned(m)

\* l.Output(2, s); panic(s)
loggerPanic(m, s) ==
    LET r == loggerOutput(m, s)
    IN  IF r.outcome = "return" THEN [r EXCEPT !.outcome = "panic", !.val = s] ELSE r

\* std.Output(2, s); os.Exit(1)
stdFatal(m, s) ==
    LET r == loggerOutput(m, s)
    IN  IF r.outcome = "return" THEN [r EXCEPT !.outcome = "exit", !.val = <<"1">>] ELSE r

(***************************************************************************)
(* Process start: init() builds the default instance from DEBUG            *)
(***************************************************************************)
initFlags(isDebug) == IF isDebug THEN BitOr(LstdFlags, Lshortfile) ELSE LstdFlags

\* DEBUG read as a boolean
isDebugEnvParsed(e) == e = "1"

\* os.Getenv("DEBUG") != ""
isDebugEnv(e) == e # ""

\* New(out, prefix, flag, debug), the line-writer stored at address a
NewLogger(id, a, debug) == [id |-> id, Logger |-> a, debug |-> debug]

EmptyHeap == [a \in Addrs |-> Free]
EmptyStreams == [w \in Writers |-> <<>>]

NoCall == [op |-> "init", b |-> FALSE, msg |-> <<>>,
           outcome |-> "return", val |-> <<>>, pre |-> NoFlags, from |-> NoFlags]

\* a goroutine's locals: the call it runs, SetDebug's argument or Debug's
\* message, the flags it read, the goroutine whose write of debug it read, and
\* whether it wrote a record between that goroutine's two writes
IdleReg == [op |-> "none", b |-> FALSE, msg |-> <<>>, f |-> NoFlags, saw |-> 0,
            torn |-> FALSE]

\* the variables only CtxSpec or ConcSpec use, at rest
CtxIdle == ctxs = <<>>
ConcIdle ==
    /\ pc = [t \in 1 .. NThreads |-> "idle"]
    /\ reg = [t \in 1 .. NThreads |-> IdleReg]
    /\ mu = 0
    /\ debugWriter = 0
    /\ start = <<>>

Init ==
    /\ env \in EnvValues
    /\ logs = [EmptyHeap EXCEPT ![1] = logNew("stderr", "", initFlags(isDebugEnv(env)))]
    /\ l = NewLogger("std", 1, isDebugEnv(env))
    /\ writes = EmptyStreams
    /\ last = NoCall
    /\ called = FALSE
    /\ CtxIdle
    /\ ConcIdle

(***************************************************************************)
(* One caller: each call is one step                                       *)
(***************************************************************************)
\* the instance and the heap as a call finds them; writes holds the Writes
\* of the latest call alone, a destination being a sink the program never reads
M == [l |-> l, logs |-> logs, streams |-> EmptyStreams]

Alive == last.outcome # "exit"

\* the step of a call named op that ends as r
Call(op, r, b, msg) ==
    /\ Alive
    /\ l' = r.l
    /\ logs' = r.logs
    /\ writes' = r.streams
    /\ last' = [op |-> op, b |-> b, msg |-> msg,
                outcome |-> r.outcome, val |-> r.val,
                pre |-> IF op = "SetDebug" /\ l.Logger # Nil
                        THEN <<logs[l.Logger].flag>> ELSE NoFlags,
                from |-> IF op = "SetDebug" /\ ~b /\ last.op = "SetDebug" /\ last.b
                         THEN last.pre ELSE NoFlags]
    /\ called' = (called \/ op = "SetDebug")
    /\ UNCHANGED <<env, ctxs, pc, reg, mu, debugWriter, start>>

\* the caller constructs its own instance before any other call
New(out, prefix, flag, debug) ==
    /\ last.op = "init"
    /\ LET a == NewAddr(logs)
       IN  Call("New", Returned([M EXCEPT !.l = NewLogger("custom", a, debug),
                                          !.logs[a] = logNew(out, prefix, flag)]),
                FALSE, <<>>)

\* &Logger{debug: debug}: an instance without a line-writer
Literal(debug) ==
    /\ last.op = "init"
    /\ Call("Literal", Returned([M EXCEPT !.l = NewLogger("custom", Nil, debug)]),
            FALSE, <<>>)

Debug(v) == Call("Debug", loggerDebug(M, Sprint(v)), FALSE, Sprint(v))

Debugln(v) == Call("Debugln", loggerDebug(M, Sprintln(v)), FALSE, Sprintln(v))

Debugf(format, a) ==
    Call("Debugf", loggerDebug(M, Sprintf(format, a)), FALSE, Sprintf(format, a))

SetDebug(b) == Call("SetDebug", loggerSetDebug(M, b), b, <<>>)

SetFlags(flag) == Call("SetFlags", loggerSetFlags(M, flag), FALSE, <<>>)

SetPrefix(prefix) == Call("SetPrefix", loggerSetPrefix(M, prefix), FALSE, <<>>)

SetOutput(w) == Call("SetOutput", loggerSetOutput(M, w), FALSE, <<>>)

Flags == Call("Flags", loggerRead(M), FALSE, <<>>)

Prefix == Call("Prefix", loggerRead(M), FALSE, <<>>)

Writer == Call("Writer", loggerRead(M), FALSE, <<>>)

Output(s) == Call("Output", loggerOutput(M, s), FALSE, s)

PrintV(v) == Call("Print", loggerOutput(M, Sprint(v)), FALSE, Sprint(v))

Printf(format, v) ==
    Call("Printf", loggerOutput(M, Sprintf(format, v)), FALSE, Sprintf(format, v))

Println(v) == Call("Println", loggerOutput(M, Sprintln(v)), FALSE, Sprintln(v))

Fatal(v) == l.id = "std" /\ Call("Fatal", stdFatal(M, Sprint(v)), FALSE, Sprint(v))

Fatalf(format, v) ==
    l.id = "std" /\ Call("Fatalf", stdFatal(M, Sprintf(format, v)), FALSE, Sprintf(format, v))

Fatalln(v) == l.id = "std" /\ Call("Fatalln", stdFatal(M, Sprintln(v)), FALSE, Sprintln(v))

Panic(v) == Call("Panic", loggerPanic(M, Sprint(v)), FALSE, Sprint(v))

Panicf(format, v) ==
    Call("Panicf", loggerPanic(M, Sprintf(format, v)), FALSE, Sprintf(format, v))

Panicln(v) == Call("Panicln", loggerPanic(M, Sprintln(v)), FALSE, Sprintln(v))

Next ==
    \/ \E out \in Writers, prefix \in Prefixes, flag \in FlagInputs, debug \in BOOLEAN :
           New(out, prefix, flag, debug)
    \/ \E debug \in BOOLEAN : Literal(debug)
    \/ \E v \in ArgLists : Debug(v)
    \/ \E v \in ArgLists : Debugln(v)
    \/ \E format \in Formats, a \in ArgLists : Debugf(format, a)
    \/ \E b \in BOOLEAN : SetDebug(b)
    \/ \E flag \in FlagInputs : SetFlags(flag)
    \/ \E prefix \in Prefixes : SetPrefix(prefix)
    \/ \E w \in Writers : SetOutput(w)
    \/ Flags
    \/ Prefix
    \/ Writer
    \/ \E v \in ArgLists : Output(Sprint(v))
    \/ \E v \in ArgLists : PrintV(v)
    \/ \E format \in Formats, v \in ArgLists : Printf(format, v)
    \/ \E v \in ArgLists : Println(v)
    \/ \E v \in ArgLists : Fatal(v)
    \/ \E format \in Formats, v \in ArgLists : Fatalf(format, v)
    \/ \E v \in ArgLists : Fatalln(v)
    \/ \E v \in ArgLists : Panic(v)
    \/ \E format \in Formats, v \in ArgLists : Panicf(format, v)
    \/ \E v \in ArgLists : Panicln(v)

Spec == Init /\ [][Next]_vars

(***************************************************************************)
(* Contexts: context.Background() is node 0, node c > 0 is ctxs[c], the    *)
(* context context.WithValue(parent, key, val) made; a parent is never     *)
(* written again.  A value is a dynamic type with a pointer.               *)
(***************************************************************************)
loggerKey == "dlog.loggerKey"
otherKey == "other.key"
Background == 0
LoggerPtrs == {"std", "l1"}
\* a nil *Logger
NilPtr == "nil"
NoValue == [type |-> "nil", ptr |-> NilPtr]
LoggerValue(p) == [type |-> "*Logger", ptr |-> p]
OtherValues == {[type |-> "string", ptr |-> NilPtr], [type |-> "*Logger", ptr |-> "l1"]}

Ctxs(h) == 0 .. Len(h)

\* ctx.Value(key): the nearest binding of key on the way to Background
RECURSIVE ctxValue(_, _, _)
ctxValue(h, c, key) ==
    IF c = Background THEN NoValue
    ELSE IF h[c].key = key THEN h[c].val
    ELSE ctxValue(h, h[c].parent, key)

\* FromContext written without the fallback to std
FromContextNoFallback(h, c) == ctxValue(h, c, loggerKey).ptr

\* l, ok := ctx.Value(loggerKey).(*Logger); if l == nil || !ok { l = std }
FromContext(h, c) ==
    LET v  == ctxValue(h, c, loggerKey)
        ok == v.type = "*Logger"
    IN  IF v.ptr = NilPtr \/ ~ok THEN "std" ELSE v.ptr

WithValue(parent, key, val) ==
    /\ Len(ctxs) < MaxCtx
    /\ ctxs' = Append(ctxs, [parent |-> parent, key |-> key, val |-> val])
    /\ UNCHANGED <<env, l, logs, writes, last, called, pc, reg, mu, debugWriter, start>>

\* NewContext(ctx, l) == context.WithValue(ctx, loggerKey, l)
NewContext(ctx, lg) == WithValue(ctx, loggerKey, LoggerValue(lg))

\* another package binds a key of its own
OtherWithValue(ctx, val) == WithValue(ctx, otherKey, val)

CtxInit ==
    /\ env \in EnvValues
    /\ logs = [EmptyHeap EXCEPT ![1] = logNew("stderr", "", initFlags(isDebugEnv(env)))]
    /\ l = NewLogger("std", 1, isDebugEnv(env))
    /\ writes = EmptyStreams
    /\ last = NoCall
    /\ called = FALSE
    /\ ctxs = <<>>
    /\ ConcIdle

CtxNext ==
    \/ \E ctx \in Ctxs(ctxs), lg \in LoggerPtrs \cup {NilPtr} : NewContext(ctx, lg)
    \/ \E ctx \in Ctxs(ctxs), val \in OtherValues : OtherWithValue(ctx, val)

CtxSpec == CtxInit /\ [][CtxNext]_vars

(***************************************************************************)
(* Goroutines on one shared instance.  Each runs one call of SetDebug or   *)
(* Debug, a step per access to the instance; mu is the goroutine holding   *)
(* l.mu, or 0.  The line-writer's own methods (Flags, SetFlags, Output)    *)
(* are atomic: log.Logger locks itself.                                    *)
(***************************************************************************)
Threads == 1 .. NThreads

\* the instances the goroutines may share: &Logger{}, and two built by New
ConcStarts ==
    { [l |-> NewLogger("custom", Nil, FALSE), logs |-> EmptyHeap],
      [l |-> NewLogger("custom", 1, FALSE),
       logs |-> [EmptyHeap EXCEPT ![1] = logNew("buf", "svc: ", LstdFlags)]],
      [l |-> NewLogger("custom", 1, TRUE),
       logs |-> [EmptyHeap EXCEPT ![1] = logNew("buf", "svc: ", LstdFlags + Lshortfile)]] }

ConcInit ==
    /\ env \in {""}
    /\ start \in ConcStarts
    /\ l = start.l
    /\ logs = start.logs
    /\ writes = EmptyStreams
    /\ last = NoCall
    /\ called = FALSE
    /\ CtxIdle
    /\ pc = [t \in Threads |-> "idle"]
    /\ reg = [t \in Threads |-> IdleReg]
    /\ mu = 0
    /\ debugWriter = 0

ConcFrame == UNCHANGED <<env, last, called, ctxs, start>>

\* go l.SetDebug(b)
GoSetDebug(t, b) ==
    /\ pc[t] = "idle"
    /\ pc' = [pc EXCEPT ![t] = "sd_check"]
    /\ reg' = [reg EXCEPT ![t] = [IdleReg EXCEPT !.op = "SetDebug", !.b = b]]
    /\ UNCHANGED <<l, logs, writes, mu, debugWriter>>
    /\ ConcFrame

\* go l.Debug(v...)
GoDebug(t, v) ==
    /\ pc[t] = "idle"
    /\ pc' = [pc EXCEPT ![t] = "d_check"]
    /\ reg' = [reg EXCEPT ![t] = [IdleReg EXCEPT !.op = "Debug", !.msg = Sprint(v)]]
    /\ UNCHANGED <<l, logs, writes, mu, debugWriter>>
    /\ ConcFrame

\* if l.Logger == nil, in SetDebug before the lock is taken
SetDebugCheckNil(t) ==
    /\ pc[t] = "sd_check"
    /\ pc' = [pc EXCEPT ![t] = IF l.Logger = Nil THEN "sd_store" ELSE "sd_lock"]
    /\ UNCHANGED <<l, logs, writes, reg, mu, debugWriter>>
    /\ ConcFrame

\* l.Logger = defaultLogger()
SetDebugStoreDefault(t) ==
    /\ pc[t] = "sd_store"
    /\ LET a == NewAddr(logs)
       IN  /\ l' = [l EXCEPT !.Logger = a]
           /\ logs' = [logs EXCEPT ![a] = defaultLogger]
    /\ pc' = [pc EXCEPT ![t] = "sd_lock"]
    /\ UNCHANGED <<writes, reg, mu, debugWriter>>
    /\ ConcFrame

\* l.mu.Lock()
SetDebugLock(t) ==
    /\ pc[t] = "sd_lock"
    /\ mu = 0
    /\ mu' = t
    /\ pc' = [pc EXCEPT ![t] = "sd_debug"]
    /\ UNCHANGED <<l, logs, writes, reg, debugWriter>>
    /\ ConcFrame

\* l.debug = b
SetDebugWriteDebug(t) ==
    /\ pc[t] = "sd_debug"
    /\ l' = [l EXCEPT !.debug = reg[t].b]
    /\ debugWriter' = t
    /\ pc' = [pc EXCEPT ![t] = "sd_flags"]
    /\ UNCHANGED <<logs, writes, reg, mu>>
    /\ ConcFrame

\* l.Flags(), the argument of the SetFlags call
SetDebugReadFlags(t) ==
    /\ pc[t] = "sd_flags"
    /\ reg' = [reg EXCEPT ![t].f = <<logs[l.Logger].flag>>]
    /\ pc' = [pc EXCEPT ![t] = "sd_setflags"]
    /\ UNCHANGED <<l, logs, writes, mu, debugWriter>>
    /\ ConcFrame

\* l.SetFlags(...)
SetDebugWriteFlags(t) ==
    /\ pc[t] = "sd_setflags"
    /\ logs' = [logs EXCEPT ![l.Logger].flag =
                    IF reg[t].b THEN setShortfile(reg[t].f[1]) ELSE clearShortfile(reg[t].f[1])]
    /\ pc' = [pc EXCEPT ![t] = "sd_unlock"]
    /\ UNCHANGED <<l, writes, reg, mu, debugWriter>>
    /\ ConcFrame

\* defer l.mu.Unlock()
SetDebugUnlock(t) ==
    /\ pc[t] = "sd_unlock"
    /\ mu' = 0
    /\ pc' = [pc EXCEPT ![t] = "done"]
    /\ UNCHANGED <<l, logs, writes, reg, debugWriter>>
    /\ ConcFrame

\* if l.Logger == nil, in Debug
DebugCheckNil(t) ==
    /\ pc[t] = "d_check"
    /\ pc' = [pc EXCEPT ![t] = IF l.Logger = Nil THEN "d_store" ELSE "d_debug"]
    /\ UNCHANGED <<l, logs, writes, reg, mu, debugWriter>>
    /\ ConcFrame

DebugStoreDefault(t) ==
    /\ pc[t] = "d_store"
    /\ LET a == NewAddr(logs)
       IN  /\ l' = [l EXCEPT !.Logger = a]
           /\ logs' = [logs EXCEPT ![a] = defaultLogger]
    /\ pc' = [pc EXCEPT ![t] = "d_debug"]
    /\ UNCHANGED <<writes, reg, mu, debugWriter>>
    /\ ConcFrame

\* if l.debug, read without the lock
DebugReadDebug(t) ==
    /\ pc[t] = "d_debug"
    /\ reg' = [reg EXCEPT ![t].saw = debugWriter]
    /\ pc' = [pc EXCEPT ![t] = IF l.debug THEN "d_output" ELSE "done"]
    /\ UNCHANGED <<l, logs, writes, mu, debugWriter>>
    /\ ConcFrame

\* the goroutine u whose write of debug t read has set debug to true and has
\* not yet set the Lshortfile bit, and the line-writer does not have the bit
MidToggle(t) ==
    LET u == reg[t].saw
    IN  /\ u # 0
        /\ reg[u].b
        /\ pc[u] \in {"sd_flags", "sd_setflags"}
        /\ ~HasBit(logs[l.Logger].flag, Lshortfile)

\* l.Output(2, fmt.Sprint(v...))
DebugOutput(t) ==
    /\ pc[t] = "d_output"
    /\ writes' = logOutput(writes, logs[l.Logger], reg[t].msg)
    /\ reg' = [reg EXCEPT ![t].torn = MidToggle(t)]
    /\ pc' = [pc EXCEPT ![t] = "done"]
    /\ UNCHANGED <<l, logs, mu, debugWriter>>
    /\ ConcFrame

ConcNext ==
    \E t \in Threads :
        \/ \E b \in BOOLEAN : GoSetDebug(t, b)
        \/ \E v \in {<<"x">>} : GoDebug(t, v)
        \/ SetDebugCheckNil(t)
        \/ SetDebugStoreDefault(t)
        \/ SetDebugLock(t)
        \/ SetDebugWriteDebug(t)
        \/ SetDebugReadFlags(t)
        \/ SetDebugWriteFlags(t)
        \/ SetDebugUnlock(t)
        \/ DebugCheckNil(t)
        \/ DebugStoreDefault(t)
        \/ DebugReadDebug(t)
        \/ DebugOutput(t)

ConcSpec == ConcInit /\ [][ConcNext]_vars

(***************************************************************************)
(* Properties of Spec                                                      *)
(***************************************************************************)
DebugOps == {"Debug", "Debugln", "Debugf"}
FatalOps == {"Fatal", "Fatalf", "Fatalln"}
PanicOps == {"Panic", "Panicf", "Panicln"}

\* the line-writer of the instance (the instance has one)
LW == logs[l.Logger]

StartsWith(rec, p) == p = "" \/ (Len(rec) >= 1 /\ rec[1] = p)

Contains(rec, s) ==
    \E i \in 1 .. (Len(rec) + 1) :
        i + Len(s) - 1 <= Len(rec) /\ SubSeq(rec, i, i + Len(s) - 1) = s

\* the latest call made exactly one Write, of rec, on destination w
WroteOnly(w, rec) == writes = [EmptyStreams EXCEPT ![w] = <<rec>>]

\* C1: when SetDebug(b) returns, debug = b and the Lshortfile bit of the flags
\* is set if b is true and cleared if b is false.
C1_SetDebugSetsDebugAndShortfile ==
    last.op = "SetDebug" =>
        /\ l.debug = last.b
        /\ HasBit(LW.flag, Lshortfile) <=> last.b

\* C2: SetDebug(true) followed at once by SetDebug(false) leaves the flags equal
\* to the flags F the instance had before the two calls.
C2_ToggleRoundTrip ==
    last.from # NoFlags => LW.flag = last.from[1]

\* C3: a Debug, Debugln or Debugf call made while debug is false writes nothing
\* to any destination, after any sequence of calls.
C3_QuietDebugWritesNothing ==
    (last.op \in DebugOps /\ ~l.debug) => writes = EmptyStreams

C3_Witness ==
    /\ last.op \in DebugOps
    /\ ~l.debug
    /\ called
    /\ l.id = "custom"
    /\ HasBit(LW.flag, Lshortfile)

\* C4 as claimed: with debug true each Debug, Debugln or Debugf call writes
\* exactly one record to the instance's current destination, and the record
\* starts with the current prefix and carries the formatted message.
C4_RecordStartsWithPrefix ==
    (last.op \in DebugOps /\ l.debug) =>
        \E rec \in {formatRecord(LW, last.msg)} :
            /\ WroteOnly(LW.out, rec)
            /\ StartsWith(rec, LW.prefix)
            /\ Contains(rec, last.msg)

\* C4 as amended: with debug true each Debug, Debugln or Debugf call makes
\* exactly one Write, on the instance's current destination and on no other; the
\* record written carries the current prefix and the formatted message, and it
\* starts with the prefix whenever the flags do not include log.Lmsgprefix.
C4_RecordCarriesPrefix ==
    (last.op \in DebugOps /\ l.debug) =>
        \E w \in Writers :
            /\ w = LW.out
            /\ \A u \in Writers \ {w} : writes[u] = <<>>
            /\ Len(writes[w]) = 1
            /\ Contains(writes[w][1], prefixTokens(LW.prefix))
            /\ Contains(writes[w][1], last.msg)
            /\ ~HasBit(LW.flag, Lmsgprefix) => StartsWith(writes[w][1], LW.prefix)

C4_Witness ==
    /\ last.op = "Debugln"
    /\ l.debug
    /\ LW.prefix = "svc: "
    /\ LW.out = "buf"
    /\ Len(writes["buf"]) = 1
    /\ writes["buf"][1][1] = "svc: "

\* C6: an instance built without a line-writer gets the default one before any
\* method uses it: no call uses an unset line-writer.
C6_LineWriterNeverUnset ==
    last.outcome # "nilderef"

\* C7: every Fatal* and Panic* call writes its formatted message whatever the
\* debug flag, and only then exits with status 1 (Fatal*) or panics with the
\* formatted string (Panic*).
C7_WriteBeforeTerminalEvent ==
    (last.op \in FatalOps \cup PanicOps) =>
        /\ \E w \in Writers : Len(writes[w]) = 1 /\ Contains(writes[w][1], last.msg)
        /\ last.op \in FatalOps => (last.outcome = "exit" /\ last.val = <<"1">>)
        /\ last.op \in PanicOps => (last.outcome = "panic" /\ last.val = last.msg)

\* C8: at process start the default instance has debug true iff DEBUG is not
\* empty, its flags include date and time, and include Lshortfile iff debug is
\* true; with DEBUG unset or empty and no SetDebug call, Debug, Debugf and
\* Debugln on the default instance write nothing.
C8_DefaultInstanceFromEnv ==
    /\ last.op = "init" =>
          /\ l.id = "std"
          /\ l.debug <=> (env # "")
          /\ HasBit(LW.flag, 1) /\ HasBit(LW.flag, 2)
          /\ HasBit(LW.flag, Lshortfile) <=> l.debug
    /\ (l.id = "std" /\ env = "" /\ ~called /\ last.op \in DebugOps) =>
          writes = EmptyStreams

C8_Witness ==
    /\ l.id = "std"
    /\ env = ""
    /\ ~called
    /\ last.op = "Debug"
    /\ LW.flag # LstdFlags

(***************************************************************************)
(* Properties of CtxSpec                                                   *)
(***************************************************************************)
\* some context on the way from c to Background binds loggerKey
RECURSIVE CarriesLogger(_, _)
CarriesLogger(h, c) ==
    IF c = Background THEN FALSE
    ELSE h[c].key = loggerKey \/ CarriesLogger(h, h[c].parent)

AttachedHere(c) == ctxs[c].key = loggerKey /\ ctxs[c].val.ptr # NilPtr

\* C5: for every context ctx and non-nil Logger L, FromContext(NewContext(ctx, L))
\* is L, FromContext(ctx) stays what it was before the attachment, and
\* FromContext of a context that carries no logger is the default instance.
C5_ContextRoundTrip ==
    /\ [](\A c \in Ctxs(ctxs) :
             /\ (c # Background /\ AttachedHere(c)) =>
                    FromContext(ctxs, c) = ctxs[c].val.ptr
             /\ ~CarriesLogger(ctxs, c) => FromContext(ctxs, c) = "std")
    /\ [][\A c \in Ctxs(ctxs) : FromContext(ctxs', c) = FromContext(ctxs, c)]_vars

C5_Witness ==
    \E c \in 1 .. Len(ctxs) :
        /\ ctxs[c].key = loggerKey
        /\ ctxs[c].val.ptr = "l1"
        /\ ctxs[c].parent # Background
        /\ FromContext(ctxs, ctxs[c].parent) = "std"
        /\ CarriesLogger(ctxs, ctxs[c].parent)
        /\ FromContext(ctxs, c) = "l1"

(***************************************************************************)
(* Properties of ConcSpec                                                  *)
(***************************************************************************)
\* what a caller can see of the instance: debug, and the line-writer's
\* destination, prefix and flags
Visible(m) == [debug |-> m.l.debug, lw |-> m.logs[m.l.Logger]]

\* the results of running the SetDebug calls of the goroutines in S one after
\* another from m, in every order
RECURSIVE SerialResults(_, _)
SerialResults(S, m) ==
    IF S = {} THEN {Visible(m)}
    ELSE UNION { SerialResults(S \ {t},
                     LET r == loggerSetDebug([l |-> m.l, logs |-> m.logs,
                                              streams |-> EmptyStreams], reg[t].b)
                     IN  [l |-> r.l, logs |-> r.logs]) : t \in S }

AllSetDebugDone == \A t \in Threads : pc[t] = "done" /\ reg[t].op = "SetDebug"

\* C9: once concurrent SetDebug calls have all returned, the instance's debug,
\* flags and line-writer are those of running the same calls one after another
\* in some order, also from an instance without a line-writer.
C9_SetDebugSerializable ==
    AllSetDebugDone =>
        Visible([l |-> l, logs |-> logs]) \in SerialResults(Threads, start)

\* C10: a Debug call concurrent with SetDebug(true) never writes a record after
\* reading the debug == true of that call while the Lshortfile bit of the same
\* call is still unset.
C10_DebugSeesWholeToggle ==
    \A t \in Threads : ~reg[t].torn

====
